---------------------------- MODULE Spec2Model ----------------------------
(***************************************************************************)
(* Verification model of django-openid-op (openid_connect_op):             *)
(*   - AbstractOpenIDClient.check_redirect_url        (models.py)          *)
(*   - OAuthRequestMixin.oauth_send_answer /                               *)
(*     OAuthRequestMixin.parse_request_parameters     (views/__init__.py)  *)
(*   - generate_jwt_patched and JWTTools              (utils/jwt.py)       *)
(*                                                                         *)
(* Python strings that the code parses are sequences of one-character      *)
(* strings, so that urlparse / splitquery / parse_qs / str.split are       *)
(* modelled by what they do to the characters.                             *)
(***************************************************************************)
EXTENDS Integers, Sequences, FiniteSets, TLC

VARIABLES
    \* ---- AbstractOpenIDClient / check_redirect_url
    redirect_uris,      \* the client's redirect_uris TextField (characters)
    registered,         \* the URIs the field was written from (parts)
    _redirect_uri,      \* last URI passed to check_redirect_url (characters)
    candidate,          \* the parts that URI was assembled from
    authorized,         \* last return value of check_redirect_url, or "none"
    \* ---- OAuthRequestMixin (one view instance serving one request)
    view,
    \* ---- generate_jwt_patched / JWTTools
    settings,           \* django.conf.settings
    clock,              \* datetime.utcnow(), in half seconds
    call,               \* arguments of the last issuance
    token,              \* the issued token
    verdict,            \* outcome of the last validation
    \* ---- provider key store and concurrent JWTTools callers
    keystore,
    procs,
    issued,
    published

vars == << redirect_uris, registered, _redirect_uri, candidate, authorized,
           view, settings, clock, call, token, verdict,
           keystore, procs, issued, published >>

redirectVars == << redirect_uris, registered, _redirect_uri, candidate, authorized >>
viewVars     == << view >>
jwtVars      == << settings, clock, call, token, verdict >>
keyVars      == << keystore, procs, issued, published >>

-----------------------------------------------------------------------------
(* Bounds of the model *)

MaxPairs == 2       \* query components in a request URI
MaxEntries == 2     \* URIs registered for the client
MaxClock == 4       \* last reading of the clock, in half seconds
MaxLifetime == 2    \* longest token lifetime, in seconds
MaxSwaps == 2       \* replacements of the provider's key pair

-----------------------------------------------------------------------------
(* Character-string helpers (Python str operations) *)

\* c in s
InSeq(x, s) == \E i \in 1..Len(s) : s[i] = x

\* s.find(c) + 1 : position of the first c, 0 when absent
IndexOf(s, c) ==
    IF InSeq(c, s)
    THEN CHOOSE i \in 1..Len(s) : s[i] = c /\ \A j \in 1..(i-1) : s[j] # c
    ELSE 0

\* s.rfind(c) + 1 : position of the last c, 0 when absent
LastIndexOf(s, c) ==
    IF InSeq(c, s)
    THEN CHOOSE i \in 1..Len(s) : s[i] = c /\ \A j \in (i+1)..Len(s) : s[j] # c
    ELSE 0

\* s.split(c) : the pieces between occurrences of c, empty pieces kept
RECURSIVE SplitOn(_, _)
SplitOn(s, c) ==
    LET i == IndexOf(s, c) IN
    IF i = 0 THEN << s >>
    ELSE << SubSeq(s, 1, i-1) >> \o SplitOn(SubSeq(s, i+1, Len(s)), c)

\* the non-empty members of a sequence of strings
NonEmpty(pieces) == SelectSeq(pieces, LAMBDA p : p # << >>)

\* str.split() with no argument: split on runs of whitespace, no empty pieces
Whitespace == { " ", "\n" }
RECURSIVE split(_)
split(s) ==
    LET ws == { i \in 1..Len(s) : s[i] \in Whitespace } IN
    IF ws = {} THEN NonEmpty(<< s >>)
    ELSE LET i == CHOOSE k \in ws : \A j \in ws : k <= j IN
         NonEmpty(<< SubSeq(s, 1, i-1) >>) \o split(SubSeq(s, i+1, Len(s)))


-----------------------------------------------------------------------------
(* URIs: the parts a URI text is assembled from, and its text *)

None == [kind |-> "None", d |-> << >>]

Bases == { << "a" >>, << "b" >> }
Keys  == { << "k" >>, << "j" >> }
Vals  == { << >>, << "x" >>, << "y" >> }
Components == [k : Keys, v : Vals]

\* "none": no '#'; "empty": a bare trailing '#'; "f": '#f'
Fragments == { "none", "empty", "f" }

Uri(base, hasq, pairs, frag) ==
    [base |-> base, hasq |-> hasq, pairs |-> pairs, frag |-> frag]

RECURSIVE JoinPairs(_)
JoinPairs(pairs) ==
    IF pairs = << >> THEN << >>
    ELSE Head(pairs).k \o << "=" >> \o Head(pairs).v
         \o (IF Len(pairs) > 1 THEN << "&" >> ELSE << >>)
         \o JoinPairs(Tail(pairs))

FragText(frag) ==
    CASE frag = "none"  -> << >>
      [] frag = "empty" -> << "#" >>
      [] OTHER          -> << "#", "f" >>

\* the text of a URI
Text(u) ==
    u.base \o (IF u.hasq THEN << "?" >> \o JoinPairs(u.pairs) ELSE << >>)
           \o FragText(u.frag)

RECURSIVE JoinLines(_)
JoinLines(texts) ==
    IF texts = << >> THEN << >>
    ELSE Head(texts) \o (IF Len(texts) > 1 THEN << "\n" >> ELSE << >>)
         \o JoinLines(Tail(texts))

\* sequences over S of length 0..n
SeqsUpTo(S, n) == UNION { [1..m -> S] : m \in 0..n }

\* URIs a request can carry
CandidateUris ==
    { Uri(b, TRUE, ps, f) : b \in Bases, ps \in SeqsUpTo(Components, MaxPairs),
                            f \in Fragments }
    \cup { Uri(b, FALSE, << >>, f) : b \in Bases, f \in Fragments }

P(k, v) == [k |-> << k >>, v |-> IF v = "" THEN << >> ELSE << v >>]

\* URIs an administrator registers for the client (no fragment)
RegisteredUris ==
    { Uri(<< "a" >>, FALSE, << >>, "none"),                         \* a
      Uri(<< "a" >>, TRUE,  << >>, "none"),                         \* a?
      Uri(<< "a" >>, TRUE,  << P("k", "x") >>, "none"),             \* a?k=x
      Uri(<< "a" >>, TRUE,  << P("k", "") >>, "none"),              \* a?k=
      Uri(<< "a" >>, TRUE,  << P("k", "x"), P("k", "") >>, "none"), \* a?k=x&k=
      Uri(<< "a" >>, TRUE,  << P("j", "y"), P("k", "x") >>, "none"),\* a?j=y&k=x
      Uri(<< "b" >>, TRUE,  << P("k", "x") >>, "none") }            \* b?k=x

-----------------------------------------------------------------------------
(* urllib.parse as used by models.py *)

\* urlparse(url).fragment : the text after the first '#'
urlparse_fragment(url) ==
    LET i == IndexOf(url, "#") IN
    IF i = 0 THEN << >> ELSE SubSeq(url, i+1, Len(url))

\* splitquery(url) : (path, query) around the last '?', query None without '?'
splitquery(url) ==
    LET i == LastIndexOf(url, "?") IN
    IF i = 0 THEN [base |-> url, none |-> TRUE, query |-> << >>]
    ELSE [base |-> SubSeq(url, 1, i-1), none |-> FALSE,
          query |-> SubSeq(url, i+1, Len(url))]

\* one name=value field: split at the first '=', blank value when there is none
Field(nv) ==
    LET i == IndexOf(nv, "=") IN
    IF i = 0 THEN [k |-> nv, v |-> << >>]
    ELSE [k |-> SubSeq(nv, 1, i-1), v |-> SubSeq(nv, i+1, Len(nv))]

\* parse_qsl(qs, keep_blank_values=True) : the fields, empty fields skipped
parse_qsl(qs) ==
    LET fields == NonEmpty(SplitOn(qs, "&")) IN
    [i \in 1..Len(fields) |-> Field(fields[i])]

RECURSIVE ValuesOf(_, _)
ValuesOf(pairs, key) ==
    IF pairs = << >> THEN << >>
    ELSE (IF Head(pairs).k = key THEN << Head(pairs).v >> ELSE << >>)
         \o ValuesOf(Tail(pairs), key)

\* parse_qs(qs, keep_blank_values=True) : name -> list of values, in order
parse_qs(qs) ==
    LET pairs == parse_qsl(qs) IN
    [key \in { pairs[i].k : i \in 1..Len(pairs) } |-> ValuesOf(pairs, key)]

-----------------------------------------------------------------------------
(* AbstractOpenIDClient *)

\* __split_base_query : the query is None, '' or the dict parse_qs returns
split_base_query(uri) ==
    LET sq == splitquery(uri) IN
    [base  |-> sq.base,
     query |-> IF sq.none THEN None
               ELSE IF sq.query = << >> THEN [kind |-> "str", d |-> << >>]
               ELSE [kind |-> "dict", d |-> parse_qs(sq.query)]]

\* Python truth value of a query: None, '' and {} are false
Truthy(q) == q.kind = "dict" /\ DOMAIN q.d # {}

\* `key in q` for a dict; for the str '' no (non-empty) key is a substring
HasKey(q, key) == q.kind = "dict" /\ key \in DOMAIN q.d

\* a variant that requires blank registered values too (drops `val and`)
RegisteredInRequest_BlankRequired(redirect_uri_query, _query) ==
    Truthy(redirect_uri_query) =>
        \A key \in DOMAIN redirect_uri_query.d :
            /\ Truthy(_query) /\ HasKey(_query, key)
            /\ \A i \in 1..Len(redirect_uri_query.d[key]) :
                  InSeq(redirect_uri_query.d[key][i], _query.d[key])

\* lines 66-73: every registered query component must exist in the request
RegisteredInRequest(redirect_uri_query, _query) ==
    Truthy(redirect_uri_query) =>
        \A key \in DOMAIN redirect_uri_query.d :
            /\ Truthy(_query) /\ HasKey(_query, key)
            /\ \A i \in 1..Len(redirect_uri_query.d[key]) :
                  LET val == redirect_uri_query.d[key][i] IN
                  val # << >> => InSeq(val, _query.d[key])

\* a variant that compares the keys only (drops the check of the values)
RequestInRegistered_KeysOnly(redirect_uri_query, _query) ==
    Truthy(_query) =>
        /\ redirect_uri_query.kind # "None"
        /\ \A key \in DOMAIN _query.d : HasKey(redirect_uri_query, key)

\* lines 77-86: every query component of the request must be registered
RequestInRegistered(redirect_uri_query, _query) ==
    Truthy(_query) =>
        /\ redirect_uri_query.kind # "None"
        /\ \A key \in DOMAIN _query.d :
            /\ HasKey(redirect_uri_query, key)
            /\ \A i \in 1..Len(_query.d[key]) :
                  LET val == _query.d[key][i] IN
                  redirect_uri_query.d[key] # << >> =>
                      \/ InSeq(val, redirect_uri_query.d[key])
                      \/ InSeq(<< >>, redirect_uri_query.d[key])

\* lines 53-90, one iteration: does this registered URI accept the request
EntryMatches(potential_redirect_uri, _base, _query) ==
    LET r == split_base_query(potential_redirect_uri) IN
    /\ _base = r.base
    /\ RegisteredInRequest(r.query, _query)
    /\ RequestInRegistered(r.query, _query)

RECURSIVE ScanEntries(_, _, _)
ScanEntries(entries, _base, _query) ==
    IF entries = << >> THEN FALSE
    ELSE IF EntryMatches(Head(entries), _base, _query) THEN TRUE
    ELSE ScanEntries(Tail(entries), _base, _query)

check_redirect_url(uris, uri) ==
    IF urlparse_fragment(uri) # << >> THEN FALSE
    ELSE LET c == split_base_query(uri) IN
         ScanEntries(split(uris), c.base, c.query)

-----------------------------------------------------------------------------
(* Specification SpecRedirect: a client's registrations and redirect checks *)

NoUri == Uri(<< >>, FALSE, << >>, "none")

IdleView == [pc |-> "idle"]

\* the parts of the program a specification leaves untouched
NoView == view = IdleView
NoJwt  == /\ settings = [OPENID_JWT_CIPHER |-> "RS256"]
          /\ clock = 0 /\ call = << >> /\ token = << >> /\ verdict = << >>
NoKeys == keystore = << >> /\ procs = << >> /\ issued = {} /\ published = {}

InitRedirect ==
    /\ redirect_uris = << >>            \* TextField(default='')
    /\ registered = << >>
    /\ _redirect_uri = << >>
    /\ candidate = NoUri
    /\ authorized = << >>
    /\ NoView /\ NoJwt /\ NoKeys

\* the administrator adds one more line to the client's redirect_uris field
RegisterUri(u) ==
    /\ authorized = << >>
    /\ Len(registered) < MaxEntries
    /\ registered' = Append(registered, u)
    /\ redirect_uris' = JoinLines([i \in 1..(Len(registered) + 1) |->
                                       Text(Append(registered, u)[i])])
    /\ UNCHANGED << _redirect_uri, candidate, authorized >>
    /\ UNCHANGED << viewVars, jwtVars, keyVars >>

\* an authorization request presents a redirect URI; the client checks it
CheckRedirectUrl(u) ==
    /\ authorized = << >>
    /\ candidate' = u
    /\ _redirect_uri' = Text(u)
    /\ authorized' = << check_redirect_url(redirect_uris, Text(u)) >>
    /\ UNCHANGED << redirect_uris, registered >>
    /\ UNCHANGED << viewVars, jwtVars, keyVars >>

\* the request is over; the client record stays as it is
RequestDone ==
    /\ authorized # << >>
    /\ candidate' = NoUri
    /\ _redirect_uri' = << >>
    /\ authorized' = << >>
    /\ UNCHANGED << redirect_uris, registered >>
    /\ UNCHANGED << viewVars, jwtVars, keyVars >>

NextRedirect ==
    \/ \E u \in RegisteredUris : RegisterUri(u)
    \/ \E u \in CandidateUris : CheckRedirectUrl(u)
    \/ RequestDone

SpecRedirect == InitRedirect /\ [][NextRedirect]_vars

-----------------------------------------------------------------------------
(* Properties of check_redirect_url, stated over the parts of the URIs *)

Checked == authorized # << >>
Answer  == authorized[1]

KeysOf(u)      == { u.pairs[i].k : i \in 1..Len(u.pairs) }
ValsOf(u, key) == { u.pairs[i].v : i \in { n \in 1..Len(u.pairs) : u.pairs[n].k = key } }

\* (a) every registered key is a request key, every non-blank registered value
\*     is among the request's values for that key
DirectionA(e, c) ==
    \A key \in KeysOf(e) :
        /\ key \in KeysOf(c)
        /\ \A v \in ValsOf(e, key) : v # << >> => v \in ValsOf(c, key)

\* (b) every request key is registered, every request value is registered
\*     under it or the registered values contain a blank
DirectionB(e, c) ==
    \A key \in KeysOf(c) :
        /\ key \in KeysOf(e)
        /\ \A v \in ValsOf(c, key) : v \in ValsOf(e, key) \/ << >> \in ValsOf(e, key)

Accepts(e, c) == e.base = c.base /\ DirectionA(e, c) /\ DirectionB(e, c)

Reverse(s) == [i \in 1..Len(s) |-> s[Len(s) + 1 - i]]

\* C1: a request URI that carries a fragment (a '#' part) is never authorized,
\* whatever its base and query and whatever is registered.
C1_FragmentNeverAuthorized ==
    (Checked /\ candidate.frag # "none") => Answer = FALSE

\* the part of C1 that the code does keep: a non-empty fragment is rejected
C1_NonEmptyFragmentRejected ==
    (Checked /\ candidate.frag = "f") => Answer = FALSE

\* the case of C2: one registered URI whose query is k=v with v non-blank, and
\* a request with the same base
C2_Case(k, v) ==
    /\ Checked
    /\ Len(registered) = 1
    /\ registered[1].pairs = << [k |-> k, v |-> v] >>
    /\ v # << >>
    /\ candidate.base = registered[1].base

\* C2 as stated: with one registered k=v, a request of the same base is refused
\* when its values for k lack v, and authorized when its values for k hold v
\* together with a further value w # v.
C2_FurtherValueAuthorized ==
    \A k \in Keys, v \in Vals :
        C2_Case(k, v) =>
            /\ v \notin ValsOf(candidate, k) => Answer = FALSE
            /\ ( /\ candidate.frag = "none"
                 /\ KeysOf(candidate) = {k}
                 /\ v \in ValsOf(candidate, k)
                 /\ \E w \in ValsOf(candidate, k) : w # v ) => Answer = TRUE

\* C2 amended: with one registered k=v, a request of the same base is refused
\* when its values for k lack v, and also refused when they hold v together
\* with a further value w # v; it is authorized when k is its only key and v
\* its only value.
C2_FurtherValueRefused ==
    \A k \in Keys, v \in Vals :
        C2_Case(k, v) =>
            /\ v \notin ValsOf(candidate, k) => Answer = FALSE
            /\ ( /\ v \in ValsOf(candidate, k)
                 /\ \E w \in ValsOf(candidate, k) : w # v ) => Answer = FALSE
            /\ ( /\ candidate.frag = "none"
                 /\ KeysOf(candidate) = {k}
                 /\ ValsOf(candidate, k) = {v} ) => Answer = TRUE

C2_Witness ==
    /\ C2_Case(<< "k" >>, << "x" >>)
    /\ candidate.frag = "none"
    /\ candidate.pairs = << P("k", "x"), P("k", "y") >>
    /\ Answer = FALSE

-----------------------------------------------------------------------------
(* OAuthRequestMixin: a view instance answering one request *)

\* optional values: << >> is absent (Python None / missing key), << v >> present
Absent == << >>
Some(v) == << v >>
Get(o) == o[1]
\* Python truth value of an optional string: None and '' are false
IsSet(o, empty) == o # Absent /\ Get(o) # empty

\* the client the requests name: 'a' and 'a?k=' (any value of k) are registered
ClientRedirectUris == << "a", "\n", "a", "?", "k", "=" >>

\* redirect_uri values a request can carry
RequestUris ==
    { << "a" >>, << "a", "?", "k", "=", "x" >>, << "a", "?", "j", "=", "y" >>,
      << "e" >> }
RequestStates == { "", "s1", "s2" }

QueryDicts ==
    [redirect_uri : {Absent} \cup { Some(u) : u \in RequestUris },
     state        : {Absent} \cup { Some(v) : v \in RequestStates }]
EmptyDict == [redirect_uri |-> Absent, state |-> Absent]
DictKeys == { "redirect_uri", "state" }

Requests ==
    { [method |-> "GET", GET |-> g, POST |-> EmptyDict] : g \in QueryDicts }
    \cup { [method |-> "POST", GET |-> g, POST |-> q] :
              g \in { d \in QueryDicts : d.state \in { Absent, Some("s1") }
                                         /\ d.redirect_uri \in { Absent, Some(<< "e" >>) } },
              q \in QueryDicts }

\* dict.update : the keys of `other` replace those of `d`
update(d, other) ==
    [key \in DictKeys |-> IF other[key] # Absent THEN other[key] ELSE d[key]]

\* lines 38-46: the parameters handed to parameters_class
RequestParams(request) ==
    IF request.method = "GET" THEN request.GET
    ELSE IF request.GET # EmptyDict
         THEN update(update(EmptyDict, request.GET), request.POST)
         ELSE request.POST

\* parameters_class(params), when it does not raise AttributeError: an object
\* with the attributes redirect_uri and state
parameters_class(params) ==
    [redirect_uri |-> params.redirect_uri, state |-> params.state]

NoParams == [error |-> Absent, code |-> Absent, state |-> Absent]
NoResponse == [kind |-> "none"]

\* lines 16-34
oauth_send_answer(self, request, response_params) ==
    LET parsed == self.request_parameters # Absent
        rp == Get(self.request_parameters)
        actual_params ==
            IF parsed /\ IsSet(rp.state, "")
            THEN [response_params EXCEPT !.state = rp.state]
            ELSE response_params
        redirect_uri ==
            IF parsed THEN rp.redirect_uri
            ELSE IF IsSet(request.GET.redirect_uri, << >>)
                 THEN request.GET.redirect_uri
                 ELSE request.POST.redirect_uri
    IN
    IF ~IsSet(redirect_uri, << >>) \/ ~self.use_redirect_uri
    THEN [kind |-> "json",
          status |-> IF response_params.error # Absent THEN 400 ELSE 200,
          params |-> actual_params]
    ELSE [kind |-> "redirect",
          target |-> Get(redirect_uri),
          sep |-> IF InSeq("?", Get(redirect_uri)) THEN "&" ELSE "?",
          params |-> actual_params]

InitAnswer ==
    /\ view = IdleView
    /\ redirect_uris = ClientRedirectUris
    /\ registered = << >> /\ _redirect_uri = << >> /\ candidate = NoUri
    /\ authorized = << >>
    /\ NoJwt /\ NoKeys

\* a request reaches a view; lines 13-14 are the instance's attributes, which
\* a view class may override (use_redirect_uri)
RequestArrives(request, use_redirect_uri) ==
    /\ view.pc = "idle"
    /\ view' = [pc |-> "received",
                request |-> request,
                request_parameters |-> Absent,
                use_redirect_uri |-> use_redirect_uri,
                approved |-> FALSE,
                response |-> NoResponse]
    /\ UNCHANGED << redirectVars, jwtVars, keyVars >>

\* lines 36-50: parameters_class either builds the parameters object or raises
\* AttributeError, which leaves request_parameters unset and raises OAuthError
ParseRequestParameters ==
    /\ view.pc = "received"
    /\ \/ view' = [view EXCEPT
                     !.pc = "parsed",
                     !.request_parameters =
                         Some(parameters_class(RequestParams(view.request)))]
       \/ view' = [view EXCEPT !.pc = "failed"]
    /\ UNCHANGED << redirectVars, jwtVars, keyVars >>

\* the view asks the client whether the parsed redirect URI is registered; on
\* refusal it gives up the redirect (InvalidRedirect) and reports an error
CheckClientRedirect ==
    /\ view.pc = "parsed"
    /\ LET uri == Get(view.request_parameters).redirect_uri
           ok == uri # Absent /\ check_redirect_url(redirect_uris, Get(uri))
       IN view' = IF ok
                  THEN [view EXCEPT !.pc = "approved", !.approved = TRUE]
                  ELSE [view EXCEPT !.pc = "rejected", !.use_redirect_uri = FALSE]
    /\ UNCHANGED << redirectVars, jwtVars, keyVars >>

\* the view answers: the result when the redirect was approved, an error
\* otherwise; response_params may hold a state entry of its own
OauthSendAnswer(rp_state) ==
    /\ view.pc \in { "approved", "rejected", "failed" }
    /\ LET response_params ==
               IF view.pc = "approved"
               THEN [NoParams EXCEPT !.code = Some("c"), !.state = rp_state]
               ELSE [NoParams EXCEPT !.error = Some("invalid_request_uri"),
                                     !.state = rp_state]
       IN view' = [view EXCEPT
                     !.pc = "answered",
                     !.response = oauth_send_answer(view, view.request, response_params)]
    /\ UNCHANGED << redirectVars, jwtVars, keyVars >>

\* the response is sent; the next request gets a fresh view instance
ResponseSent ==
    /\ view.pc = "answered"
    /\ view' = IdleView
    /\ UNCHANGED << redirectVars, jwtVars, keyVars >>

NextAnswer ==
    \/ \E r \in Requests, u \in BOOLEAN : RequestArrives(r, u)
    \/ ParseRequestParameters
    \/ CheckClientRedirect
    \/ \E st \in { Absent, Some("s9") } : OauthSendAnswer(st)
    \/ ResponseSent

SpecAnswer == InitAnswer /\ [][NextAnswer]_vars

\* the state parameter of the original request, as the view reads it
RequestState == RequestParams(view.request).state

\* C4: oauth_send_answer never redirects to a redirect URI that
\* check_redirect_url refused or never approved for the client; such a request
\* is answered with a JSON body, also when the parameters failed to parse and
\* the URI is read straight from the request's GET/POST data.
C4_RedirectOnlyToApprovedUri ==
    (view.pc = "answered" /\ view.response.kind = "redirect") =>
        /\ view.approved
        /\ check_redirect_url(redirect_uris, view.response.target)

\* C10: when the original request carried a non-empty state, the answer of
\* oauth_send_answer (redirect query or JSON body) holds state with exactly
\* that value, with or without parsed request parameters and whatever
\* response_params holds.
C10_StateEchoed ==
    (view.pc = "answered" /\ IsSet(RequestState, "")) =>
        view.response.params.state = RequestState

-----------------------------------------------------------------------------
(* utils/jwt.py: keys, time, JSON and the token *)

\* datetimes are counted in half seconds; timegm(dt.utctimetuple()) is the
\* whole number of seconds, the fraction is dropped
timegm(dt) == dt \div 2
\* datetime + timedelta, the timedelta in whole seconds
plus(dt, seconds) == dt + 2 * seconds

KeyPairs == { "K1", "K2" }
private_key(pair) == [pair |-> pair, half |-> "private"]
public_key(pair)  == [pair |-> pair, half |-> "public"]
\* jwk.JWK.key_id : derived from the public key
key_id(pub) == << "kid", pub.pair >>

Algorithms == { "RS256", "PS512" }

ReservedNames == { "jti", "nbf", "iat", "exp" }
NameOrder == << "exp", "iat", "jti", "nbf", "sub" >>

\* dict[name] = value
Put(m, name, value) ==
    [n \in DOMAIN m \cup {name} |-> IF n = name THEN value ELSE m[n]]

\* json_encode of a dict: its items, names in sorted order
json_encode(m) ==
    LET names == SelectSeq(NameOrder, LAMBDA n : n \in DOMAIN m) IN
    [i \in 1..Len(names) |-> << names[i], m[names[i]] >>]

\* json_decode : the dict of the items
json_decode(items) ==
    [n \in { items[i][1] : i \in 1..Len(items) } |->
        LET i == CHOOSE j \in 1..Len(items) : items[j][1] = n IN items[i][2]]

base64url_encode(x) == [b64 |-> x]
base64url_decode(x) == x.b64

\* the JWS signature of the two encoded segments under a private key
Sign(priv_key, header, payload) ==
    [pair |-> priv_key.pair, alg |-> header.alg,
     header |-> base64url_encode(header), payload |-> base64url_encode(payload)]

\* timedelta(0), None and 0 are false
LifetimeSet(lifetime) == lifetime # Absent /\ Get(lifetime) # 0

\* a variant that prefers `expires` to `lifetime`
ExpClaim_ExpiresFirst(claims, now, lifetime, expires) ==
    IF expires # Absent THEN Put(claims, "exp", timegm(Get(expires)))
    ELSE IF LifetimeSet(lifetime)
         THEN Put(claims, "exp", timegm(plus(now, Get(lifetime))))
    ELSE claims

\* lines 67-70
ExpClaim(claims, now, lifetime, expires) ==
    IF LifetimeSet(lifetime)
    THEN Put(claims, "exp", timegm(plus(now, Get(lifetime))))
    ELSE IF expires # Absent THEN Put(claims, "exp", timegm(Get(expires)))
    ELSE claims

\* lines 51-83; `now` is datetime.utcnow() and `random` is
\* base64url_encode(urandom(jti_size))
generate_jwt_patched(claims, priv_key, algorithm, lifetime, expires, not_before, jti_size, extra_headers, now, random) ==
    LET header == [typ |-> "JWT",
                   alg |-> IF priv_key # Absent THEN algorithm ELSE "none",
                   kid |-> extra_headers]
        c1 == IF jti_size # 0
              THEN Put(claims, "jti", random) ELSE claims
        c2 == Put(c1, "nbf",
                  timegm(IF not_before # Absent THEN Get(not_before) ELSE now))
        c3 == Put(c2, "iat", timegm(now))
        c4 == ExpClaim(c3, now, lifetime, expires)
        signature == IF header.alg = "none" THEN << >>
                     ELSE << Sign(Get(priv_key), header, json_encode(c4)) >>
    IN [header    |-> base64url_encode(header),
        claims    |-> base64url_encode(json_encode(c4)),
        signature |-> signature]

\* the provider's own key pair (OpenIDClient.self_instance().get_key)
ProviderKey == "K1"

\* JWTTools.kid, lines 113-116
kid(pair) == key_id(public_key(pair))

\* JWTTools.generate_jwt, lines 88-98
generate_jwt(payload, conf, pair, now, random) ==
    generate_jwt_patched(payload, Some(private_key(pair)),
                         conf.OPENID_JWT_CIPHER, Absent, Absent, Absent, 16,
                         Some(kid(pair)), now, random)

Failure(kind) == [ok |-> FALSE, error |-> kind, claims |-> << >>]

\* python_jwt.verify_jwt(token, pub_key, allowed_algs), at clock reading `now`
verify_jwt(tok, pub_key, allowed_algs, now) ==
    LET header == base64url_decode(tok.header)
        claims == json_decode(base64url_decode(tok.claims))
        signed == /\ tok.signature # << >>
                  /\ header.alg # "none"
                  /\ Get(tok.signature).pair = pub_key.pair
                  /\ Get(tok.signature).alg = header.alg
                  /\ Get(tok.signature).header = tok.header
                  /\ Get(tok.signature).payload = tok.claims
    IN
    IF header.alg \notin allowed_algs THEN Failure("AlgorithmNotAllowed")
    ELSE IF ~signed THEN Failure("SignatureInvalid")
    ELSE IF "nbf" \in DOMAIN claims /\ timegm(now) < claims["nbf"]
         THEN Failure("NotYetValid")
    ELSE IF "exp" \in DOMAIN claims /\ claims["exp"] <= timegm(now)
         THEN Failure("Expired")
    ELSE [ok |-> TRUE, error |-> "", claims |-> claims]

\* a variant that also lets unsigned tokens through the algorithm check
validate_jwt_NoneAllowed(tok, conf, pair, now) ==
    verify_jwt(tok, public_key(pair), { conf.OPENID_JWT_CIPHER, "none" }, now)

\* JWTTools.validate_jwt, lines 100-106
validate_jwt(tok, conf, pair, now) ==
    verify_jwt(tok, public_key(pair), { conf.OPENID_JWT_CIPHER }, now)

-----------------------------------------------------------------------------
(* Specification SpecJwt: issuing a token and validating it later *)

\* what a caller puts under a name; the times are far from the model's clock
CallerValue(name) ==
    CASE name = "sub" -> "user"
      [] name = "jti" -> "caller-jti"
      [] OTHER        -> 77

\* claims maps of the callers: a subject, and some of the generated names
CallerClaims ==
    { [n \in {"sub"} \cup S |-> CallerValue(n)] :
        S \in { {}, {"jti"}, {"exp"}, {"iat"}, {"nbf"}, ReservedNames } }

Randoms == { "r1" }
Lifetimes == {Absent} \cup { Some(l) : l \in 0..MaxLifetime }
Datetimes == {Absent} \cup { Some(3) }
JtiSizes == { 0, 16 }
SigningKeys == { Absent, Some(private_key(ProviderKey)) }
AllowedSets == { {"RS256"}, {"PS512"}, {"none"}, {"RS256", "PS512"} }

InitJwt ==
    /\ settings \in [OPENID_JWT_CIPHER : Algorithms]
    /\ clock = 0
    /\ call = << >> /\ token = << >> /\ verdict = << >>
    /\ redirect_uris = << >> /\ registered = << >> /\ _redirect_uri = << >>
    /\ candidate = NoUri /\ authorized = << >>
    /\ NoView /\ NoKeys

\* time passes between two calls
Tick ==
    /\ clock < MaxClock
    /\ verdict = << >>
    /\ clock' = clock + 1
    /\ UNCHANGED << settings, call, token, verdict >>
    /\ UNCHANGED << redirectVars, viewVars, keyVars >>

\* a caller issues a token with generate_jwt_patched
Issue(claims, priv_key, algorithm, lifetime, expires, not_before, jti_size, random) ==
    /\ token = << >>
    /\ call' = << [via |-> "generate_jwt_patched", claims |-> claims,
                   priv_key |-> priv_key, algorithm |-> algorithm,
                   lifetime |-> lifetime, expires |-> expires,
                   not_before |-> not_before, jti_size |-> jti_size,
                   now |-> clock] >>
    /\ token' = << generate_jwt_patched(claims, priv_key, algorithm, lifetime,
                                        expires, not_before, jti_size, Absent,
                                        clock, random) >>
    /\ UNCHANGED << settings, clock, verdict >>
    /\ UNCHANGED << redirectVars, viewVars, keyVars >>

\* the provider issues a token with JWTTools.generate_jwt
ToolsGenerateJwt(payload, random) ==
    /\ token = << >>
    /\ call' = << [via |-> "JWTTools.generate_jwt", claims |-> payload,
                   priv_key |-> Some(private_key(ProviderKey)),
                   algorithm |-> settings.OPENID_JWT_CIPHER,
                   lifetime |-> Absent, expires |-> Absent,
                   not_before |-> Absent, jti_size |-> 16,
                   now |-> clock] >>
    /\ token' = << generate_jwt(payload, settings, ProviderKey, clock, random) >>
    /\ UNCHANGED << settings, clock, verdict >>
    /\ UNCHANGED << redirectVars, viewVars, keyVars >>

\* a verifier validates the token with a key and the algorithms it trusts
Validate(pair, allowed_algs) ==
    /\ token # << >> /\ verdict = << >>
    /\ verdict' = << [via |-> "verify_jwt", pair |-> pair,
                      allowed |-> allowed_algs, at |-> clock,
                      result |-> verify_jwt(Get(token), public_key(pair),
                                            allowed_algs, clock)] >>
    /\ UNCHANGED << settings, clock, call, token >>
    /\ UNCHANGED << redirectVars, viewVars, keyVars >>

\* the provider validates the token with JWTTools.validate_jwt
ToolsValidateJwt ==
    /\ token # << >> /\ verdict = << >>
    /\ verdict' = << [via |-> "JWTTools.validate_jwt", pair |-> ProviderKey,
                      allowed |-> { settings.OPENID_JWT_CIPHER }, at |-> clock,
                      result |-> validate_jwt(Get(token), settings,
                                              ProviderKey, clock)] >>
    /\ UNCHANGED << settings, clock, call, token >>
    /\ UNCHANGED << redirectVars, viewVars, keyVars >>

\* the verifier has its answer; the token may be presented again
VerdictRead ==
    /\ verdict # << >>
    /\ verdict' = << >>
    /\ UNCHANGED << settings, clock, call, token >>
    /\ UNCHANGED << redirectVars, viewVars, keyVars >>

NextJwt ==
    \/ Tick
    \/ \E c \in CallerClaims, k \in SigningKeys, a \in Algorithms,
          l \in Lifetimes, e \in Datetimes, nb \in Datetimes,
          js \in JtiSizes, r \in Randoms : Issue(c, k, a, l, e, nb, js, r)
    \/ \E c \in CallerClaims, r \in Randoms : ToolsGenerateJwt(c, r)
    \/ \E k \in KeyPairs, al \in AllowedSets : Validate(k, al)
    \/ ToolsValidateJwt
    \/ VerdictRead

SpecJwt == InitJwt /\ [][NextJwt]_vars

-----------------------------------------------------------------------------
(* Properties of issuance and validation *)

Issued == token # << >>
Args == Get(call)
\* the claims and the header carried by the issued token
TokenClaims == json_decode(base64url_decode(Get(token).claims))
TokenHeader == base64url_decode(Get(token).header)

\* C5: whatever jti_size, lifetime, expires and not_before are, a claim the
\* caller supplied under jti, nbf, iat or exp never appears in the issued
\* token with the caller's value: the name holds the generated value or is
\* absent.
C5_CallerNeverOverridesGenerated ==
    Issued =>
        \A n \in ReservedNames \cap DOMAIN Args.claims :
            n \in DOMAIN TokenClaims => TokenClaims[n] # Args.claims[n]

\* C6: with a lifetime L given (0 seconds included) exp = iat + L; otherwise
\* with an explicit expires, exp is that timestamp in Unix seconds; with
\* neither, the issued claims hold no exp.  (Stated for callers whose own
\* claims hold no exp.)
C6_ExpFromLifetimeElseExpires ==
    (Issued /\ "exp" \notin DOMAIN Args.claims) =>
        IF Args.lifetime # Absent
        THEN /\ "exp" \in DOMAIN TokenClaims
             /\ TokenClaims["exp"] = TokenClaims["iat"] + Get(Args.lifetime)
        ELSE IF Args.expires # Absent
        THEN /\ "exp" \in DOMAIN TokenClaims
             /\ TokenClaims["exp"] = timegm(Get(Args.expires))
        ELSE "exp" \notin DOMAIN TokenClaims

Validated == Issued /\ verdict # << >>
Outcome == Get(verdict).result

\* the case of C7: issued with a key, a lifetime L, a jti and no not_before,
\* validated with the same key and exactly the issuing algorithm at a time t
\* with iat <= t < iat + L
C7_Case ==
    /\ Validated
    /\ Args.priv_key # Absent
    /\ Args.lifetime # Absent
    /\ Args.not_before = Absent
    /\ Args.jti_size # 0
    /\ Get(verdict).pair = Get(Args.priv_key).pair
    /\ Get(verdict).allowed = { Args.algorithm }
    /\ timegm(Args.now) <= timegm(Get(verdict).at)
    /\ timegm(Get(verdict).at) < timegm(Args.now) + Get(Args.lifetime)

\* C7: round trip: such a validation succeeds and yields a claims map with
\* every caller claim (those not named like a generated claim with the
\* caller's value) plus jti, iat, nbf and exp, where exp - iat = L and
\* nbf = iat.
C7_RoundTrip ==
    C7_Case =>
        /\ Outcome.ok
        /\ DOMAIN Args.claims \cup ReservedNames \subseteq DOMAIN Outcome.claims
        /\ \A n \in DOMAIN Args.claims \ ReservedNames :
               Outcome.claims[n] = Args.claims[n]
        /\ Outcome.claims["exp"] - Outcome.claims["iat"] = Get(Args.lifetime)
        /\ Outcome.claims["nbf"] = Outcome.claims["iat"]
        /\ Outcome.claims["iat"] = timegm(Args.now)

\* issued in the second half of a second, with expires given as well, and
\* validated in a later second of the lifetime
C7_Witness ==
    /\ C7_Case
    /\ Outcome.ok
    /\ Args.expires # Absent
    /\ Args.now = 1
    /\ timegm(Get(verdict).at) > timegm(Args.now)
    /\ "iat" \in DOMAIN Args.claims

\* C8: a token whose header algorithm is outside the allowed set is never
\* accepted: validation fails with AlgorithmNotAllowed and returns no claims,
\* also when the signature is valid and also for the unsigned 'none' token;
\* JWTTools.validate_jwt allows exactly the configured cipher.
C8_AlgorithmOutsideAllowedRejected ==
    Validated =>
        /\ TokenHeader.alg \notin Get(verdict).allowed =>
               Outcome = Failure("AlgorithmNotAllowed")
        /\ Get(verdict).via = "JWTTools.validate_jwt" =>
               /\ Get(verdict).allowed = { settings.OPENID_JWT_CIPHER }
               /\ Outcome.ok => TokenHeader.alg = settings.OPENID_JWT_CIPHER

\* a verifier holding the signing key's public half refuses a validly signed
\* token whose algorithm it does not allow
C8_Witness ==
    /\ Validated
    /\ Outcome = Failure("AlgorithmNotAllowed")
    /\ Get(token).signature # << >>
    /\ Get(verdict).pair = Get(Get(token).signature).pair
    /\ TokenHeader.alg \in Algorithms

-----------------------------------------------------------------------------
(* Specification SpecKeys: JWTTools callers while the key pair is replaced *)

Procs == { "p1", "p2" }

\* key pairs are numbered by generation; both halves are stored under
\* OpenIDClient.self_instance() and read with get_key, one half per call
InitKeys ==
    /\ keystore = [public |-> 0, private |-> 0]
    /\ procs = [p \in Procs |-> [pc |-> "idle", kid |-> Absent]]
    /\ issued = {}
    /\ published = {}
    /\ redirect_uris = << >> /\ registered = << >> /\ _redirect_uri = << >>
    /\ candidate = NoUri /\ authorized = << >>
    /\ NoView /\ NoJwt

\* the provider's key pair is replaced, both halves at once
SwapKeys ==
    /\ keystore.public < MaxSwaps
    /\ keystore' = [public |-> keystore.public + 1, private |-> keystore.private + 1]
    /\ UNCHANGED << procs, issued, published >>
    /\ UNCHANGED << redirectVars, viewVars, jwtVars >>

\* JWTTools.generate_jwt, lines 92-94: JWTTools.kid() reads the public key
ReadKid(p) ==
    /\ procs[p].pc = "idle"
    /\ procs' = [procs EXCEPT ![p] = [pc |-> "kid_read",
                                      kid |-> Some(kid(keystore.public))]]
    /\ UNCHANGED << keystore, issued, published >>
    /\ UNCHANGED << redirectVars, viewVars, jwtVars >>

\* JWTTools.generate_jwt, lines 95-98: the private key is read and the token
\* is signed, with the kid read before in its header
SignToken(p) ==
    /\ procs[p].pc = "kid_read"
    /\ issued' = issued \cup
           { generate_jwt_patched([sub |-> "user"],
                                  Some(private_key(keystore.private)),
                                  settings.OPENID_JWT_CIPHER,
                                  Absent, Absent, Absent, 16,
                                  procs[p].kid, clock, "r1") }
    /\ procs' = [procs EXCEPT ![p] = [pc |-> "idle", kid |-> Absent]]
    /\ UNCHANGED << keystore, published >>
    /\ UNCHANGED << redirectVars, viewVars, jwtVars >>

\* JWTTools.get_jwks, lines 108-111: the public key is read and exported
GetJwks ==
    /\ published' = published \cup
           { [kid |-> kid(keystore.public), key |-> public_key(keystore.public)] }
    /\ UNCHANGED << keystore, procs, issued >>
    /\ UNCHANGED << redirectVars, viewVars, jwtVars >>

NextKeys ==
    \/ SwapKeys
    \/ \E p \in Procs : ReadKid(p)
    \/ \E p \in Procs : SignToken(p)
    \/ GetJwks

SpecKeys == InitKeys /\ [][NextKeys]_vars

\* C9: every issued token is built from one key generation: the kid in its
\* header is the identifier of the public half of the key pair whose private
\* half signed it, and is the kid get_jwks publishes for that pair.
C9_KidMatchesSigningKey ==
    \A t \in issued :
        LET header == base64url_decode(t.header)
            pair == Get(t.signature).pair
        IN /\ header.kid = Some(key_id(public_key(pair)))
           /\ \A j \in published : j.key.pair = pair => Some(j.kid) = header.kid

=============================================================================
